---- MODULE Spec2Model ----
(***************************************************************************)
(* Model of DirectXTK12/Src/LinearAllocator.cpp: the fixed-page linear     *)
(* allocator (LinearAllocatorPage, LinearAllocator).  Pages are kept in    *)
(* three intrusive doubly-linked lists (m_unusedPages, m_usedPages,        *)
(* m_pendingPages) whose links are modelled pointer by pointer.            *)
(***************************************************************************)
EXTENDS Integers, FiniteSets, Sequences, TLC

\* ------------------------------------------------------------------ bounds
\* Largest number of pages the device can hold at once (page creation fails beyond it).
MaxPages == 2
\* The same limit for a device that is asked for whole pages only, where a
\* list can hold a head, a middle and a tail page.
MaxPagesWhole == 3
\* log2 of the pageSize passed to the constructor.
PageBits == 2
\* Largest number of pages preallocated by the constructor.
MaxPrealloc == 1
\* Cap on a page's mPendingFence (commit cycles per page).
MaxFence == 2
\* Cap on a page's mRefCount.
MaxRef == 1

\* pageSize (m_increment), a power of two.
PageSize == 2 ^ PageBits

NULL == 0
Pages == 1..MaxPagesWhole
PagePtr == Pages \cup {NULL}

\* The <<size, alignment>> requests made of FindPageForAlloc: sub-page sizes with
\* and without alignment, the whole page, and the three kinds the argument
\* checks refuse (zero size, size and alignment above the page size).  Every
\* size and alignment is at most 2 * pageSize, far inside size_t, so no sum
\* in AlignOffset or Suballocate wraps and the integers are left unbounded.
Requests ==
    {<<1, 0>>, <<1, 2>>, <<PageSize, 0>>, <<PageSize, PageSize>>,
     <<0, 0>>, <<PageSize + 1, 0>>, <<1, 2 * PageSize>>}
\* Outcomes of the device calls made by GetNewPage.
Backends == {"ok", "resourceFail", "mapFail", "fenceFail"}

VARIABLES
    debug,            \* TRUE iff the build defines _DEBUG
    deviceLimit,      \* number of committed resources the device can hold
    pc,               \* "alive", "dtor" (inside ~LinearAllocator), "done"
    m_unusedPages, m_usedPages, m_pendingPages,   \* list heads
    m_totalPages, m_numPending,
    live,             \* pages that exist (new'ed and not yet deleted)
    pNextPage, pPrevPage, mOffset, mPendingFence, mRefCount,  \* page fields
    mFence,           \* completed value of each page's fence
    signals,          \* Signal(fence, value) calls queued on the command queue
    assertFailed,     \* TRUE once an assert() condition was false
    granted,          \* history: the last range [lo, hi) suballocated from each page since it last left m_unusedPages
    atDtor            \* history: the pages that were in m_pendingPages when ~LinearAllocator began

vars == <<debug, deviceLimit, pc, m_unusedPages, m_usedPages, m_pendingPages, m_totalPages,
          m_numPending, live, pNextPage, pPrevPage, mOffset, mPendingFence,
          mRefCount, mFence, signals, assertFailed, granted, atDtor>>

\* ------------------------------------------------------------ pure helpers
\* x & ~m on unsigned integers, bit by bit.
RECURSIVE AndNot(_, _)
AndNot(x, m) ==
    IF x = 0 THEN 0
    ELSE (IF x % 2 = 1 /\ m % 2 = 0 THEN 1 ELSE 0) + 2 * AndNot(x \div 2, m \div 2)

\* Mutant of AlignOffset: the offset is returned as it is.
AlignOffsetNone(offset, alignment) == offset

AlignOffset(offset, alignment) ==
    IF alignment > 0
    THEN AndNot(offset + alignment - 1, alignment - 1)
    ELSE offset

\* The allocator and its pages as one record, so that the methods compose.
Cur ==
    [m_unusedPages |-> m_unusedPages, m_usedPages |-> m_usedPages,
     m_pendingPages |-> m_pendingPages, m_totalPages |-> m_totalPages,
     m_numPending |-> m_numPending, live |-> live,
     pNextPage |-> pNextPage, pPrevPage |-> pPrevPage, mOffset |-> mOffset,
     mPendingFence |-> mPendingFence, mRefCount |-> mRefCount,
     mFence |-> mFence, signals |-> signals, assertFailed |-> assertFailed]

Assign(s) ==
    /\ m_unusedPages' = s.m_unusedPages
    /\ m_usedPages' = s.m_usedPages
    /\ m_pendingPages' = s.m_pendingPages
    /\ m_totalPages' = s.m_totalPages
    /\ m_numPending' = s.m_numPending
    /\ live' = s.live
    /\ pNextPage' = s.pNextPage
    /\ pPrevPage' = s.pPrevPage
    /\ mOffset' = s.mOffset
    /\ mPendingFence' = s.mPendingFence
    /\ mRefCount' = s.mRefCount
    /\ mFence' = s.mFence
    /\ signals' = s.signals
    /\ assertFailed' = s.assertFailed

InitFrom(s) ==
    /\ m_unusedPages = s.m_unusedPages
    /\ m_usedPages = s.m_usedPages
    /\ m_pendingPages = s.m_pendingPages
    /\ m_totalPages = s.m_totalPages
    /\ m_numPending = s.m_numPending
    /\ live = s.live
    /\ pNextPage = s.pNextPage
    /\ pPrevPage = s.pPrevPage
    /\ mOffset = s.mOffset
    /\ mPendingFence = s.mPendingFence
    /\ mRefCount = s.mRefCount
    /\ mFence = s.mFence
    /\ signals = s.signals
    /\ assertFailed = s.assertFailed

\* LinearAllocator::LinearAllocator, before preallocation.
EmptyAllocator ==
    [m_unusedPages |-> NULL, m_usedPages |-> NULL, m_pendingPages |-> NULL,
     m_totalPages |-> 0, m_numPending |-> 0, live |-> {},
     pNextPage |-> [p \in Pages |-> NULL], pPrevPage |-> [p \in Pages |-> NULL],
     mOffset |-> [p \in Pages |-> 0], mPendingFence |-> [p \in Pages |-> 0],
     mRefCount |-> [p \in Pages |-> 0], mFence |-> [p \in Pages |-> 0],
     signals |-> {}, assertFailed |-> FALSE]

CheckThat(s, cond) == IF cond THEN s ELSE [s EXCEPT !.assertFailed = TRUE]

\* LinearAllocatorPage::LinearAllocatorPage and ID3D12Device::CreateFence(0, ...).
NewPageFields(s, page) ==
    [s EXCEPT !.live = @ \cup {page},
              !.pNextPage[page] = NULL, !.pPrevPage[page] = NULL,
              !.mOffset[page] = 0, !.mPendingFence[page] = 0,
              !.mRefCount[page] = 0, !.mFence[page] = 0]

\* delete page: the object is gone; its fields are cleared in the model.
DeletePage(s, page) ==
    [s EXCEPT !.live = @ \ {page},
              !.pNextPage[page] = NULL, !.pPrevPage[page] = NULL,
              !.mOffset[page] = 0, !.mPendingFence[page] = 0,
              !.mRefCount[page] = 0, !.mFence[page] = 0,
              !.signals = {sg \in @ : sg[1] # page}]

\* The address operator new returns: a page slot that is not in use.
FreshPage(s) == CHOOSE p \in Pages \ s.live : \A q \in Pages \ s.live : p <= q

\* ---------------------------------------------------------- list plumbing
\* Mutant of UnlinkPage: the case of the head of m_pendingPages is missing.
UnlinkPageNoPendingHead(s, page) ==
    LET prv == s.pPrevPage[page]
        nxt == s.pNextPage[page]
        s1 == IF prv # NULL
              THEN [s EXCEPT !.pNextPage[prv] = nxt]
              ELSE IF page = s.m_unusedPages THEN [s EXCEPT !.m_unusedPages = nxt]
              ELSE IF page = s.m_usedPages THEN [s EXCEPT !.m_usedPages = nxt]
              ELSE s
        s2 == IF nxt # NULL THEN [s1 EXCEPT !.pPrevPage[nxt] = prv] ELSE s1
    IN  [s2 EXCEPT !.pNextPage[page] = NULL, !.pPrevPage[page] = NULL]

\* Mutant of UnlinkPage: the next page keeps its link back to the removed page.
UnlinkPageNoBackLink(s, page) ==
    LET prv == s.pPrevPage[page]
        nxt == s.pNextPage[page]
        s1 == IF prv # NULL
              THEN [s EXCEPT !.pNextPage[prv] = nxt]
              ELSE IF page = s.m_unusedPages THEN [s EXCEPT !.m_unusedPages = nxt]
              ELSE IF page = s.m_usedPages THEN [s EXCEPT !.m_usedPages = nxt]
              ELSE IF page = s.m_pendingPages THEN [s EXCEPT !.m_pendingPages = nxt]
              ELSE s
    IN  [s1 EXCEPT !.pNextPage[page] = NULL, !.pPrevPage[page] = NULL]

UnlinkPage(s, page) ==
    LET prv == s.pPrevPage[page]
        nxt == s.pNextPage[page]
        s1 == IF prv # NULL
              THEN [s EXCEPT !.pNextPage[prv] = nxt]
              ELSE IF page = s.m_unusedPages THEN [s EXCEPT !.m_unusedPages = nxt]
              ELSE IF page = s.m_usedPages THEN [s EXCEPT !.m_usedPages = nxt]
              ELSE IF page = s.m_pendingPages THEN [s EXCEPT !.m_pendingPages = nxt]
              ELSE s
        s2 == IF nxt # NULL THEN [s1 EXCEPT !.pPrevPage[nxt] = prv] ELSE s1
    IN  [s2 EXCEPT !.pNextPage[page] = NULL, !.pPrevPage[page] = NULL]

\* The last page of the chain that starts at page.
RECURSIVE LastOfChain(_, _)
LastOfChain(s, page) ==
    IF s.pNextPage[page] = NULL THEN page ELSE LastOfChain(s, s.pNextPage[page])

\* list names one of the three head fields (the C++ passes the head by reference).
LinkPageChain(s, page, list) ==
    LET head == s[list]
        s0 == CheckThat(CheckThat(s, s.pPrevPage[page] = NULL),
                        head = NULL \/ s.pPrevPage[head] = NULL)
        lastPage == LastOfChain(s0, page)
        s1 == [s0 EXCEPT !.pNextPage[lastPage] = head]
        s2 == IF head # NULL THEN [s1 EXCEPT !.pPrevPage[head] = lastPage] ELSE s1
    IN  [s2 EXCEPT ![list] = page]

LinkPage(s, page, list) ==
    LET head == s[list]
        s0 == CheckThat(CheckThat(CheckThat(s, s.pNextPage[page] = NULL),
                                  s.pPrevPage[page] = NULL),
                        head = NULL \/ s.pPrevPage[head] = NULL)
        s1 == [s0 EXCEPT !.pNextPage[page] = head]
        s2 == IF head # NULL THEN [s1 EXCEPT !.pPrevPage[head] = page] ELSE s1
    IN  [s2 EXCEPT ![list] = page]

\* Mutant of ReleasePage: the page goes back to m_unusedPages with its cursor.
ReleasePageNoReset(s, page) ==
    LET s0 == CheckThat(s, s.m_numPending > 0)
        s1 == [s0 EXCEPT !.m_numPending = @ - 1]
    IN  LinkPage(UnlinkPage(s1, page), page, "m_unusedPages")

\* Mutant of ReleasePage: the page is linked into m_usedPages.
ReleasePageToUsed(s, page) ==
    LET s0 == CheckThat(s, s.m_numPending > 0)
        s1 == [s0 EXCEPT !.m_numPending = @ - 1]
        s2 == LinkPage(UnlinkPage(s1, page), page, "m_usedPages")
    IN  [s2 EXCEPT !.mOffset[page] = 0]

ReleasePage(s, page) ==
    LET s0 == CheckThat(s, s.m_numPending > 0)
        s1 == [s0 EXCEPT !.m_numPending = @ - 1]
        s2 == LinkPage(UnlinkPage(s1, page), page, "m_unusedPages")
    IN  [s2 EXCEPT !.mOffset[page] = 0]

RECURSIVE FreePages(_, _)
FreePages(s, page) ==
    IF page = NULL THEN s
    ELSE LET nextPage == s.pNextPage[page]
         IN  FreePages([DeletePage(s, page) EXCEPT !.m_totalPages = @ - 1], nextPage)

\* -------------------------------------------------------- page creation
\* Mutant of GetNewPage: the page is linked before CreateFence can fail.
GetNewPageLinksEarly(s, be) ==
    IF be = "resourceFail" \/ Cardinality(s.live) >= deviceLimit
    THEN [s |-> s, page |-> NULL, thrown |-> FALSE]
    ELSE IF be = "mapFail"
    THEN [s |-> s, page |-> NULL, thrown |-> TRUE]
    ELSE LET page == FreshPage(s)
             s1 == NewPageFields(s, page)
             s2 == [s1 EXCEPT !.pNextPage[page] = s.m_unusedPages]
             s3 == IF s.m_unusedPages # NULL
                   THEN [s2 EXCEPT !.pPrevPage[s.m_unusedPages] = page] ELSE s2
         IN  [s |-> [s3 EXCEPT !.m_unusedPages = page, !.m_totalPages = @ + 1],
              page |-> IF be = "fenceFail" THEN NULL ELSE page, thrown |-> FALSE]

\* Mutant of GetNewPage: m_totalPages is counted before CreateFence can fail.
GetNewPageCountsEarly(s, be) ==
    IF be = "resourceFail" \/ Cardinality(s.live) >= deviceLimit
    THEN [s |-> s, page |-> NULL, thrown |-> FALSE]
    ELSE IF be = "mapFail"
    THEN [s |-> s, page |-> NULL, thrown |-> TRUE]
    ELSE IF be = "fenceFail"
    THEN [s |-> [s EXCEPT !.m_totalPages = @ + 1], page |-> NULL, thrown |-> FALSE]
    ELSE LET page == FreshPage(s)
             s1 == NewPageFields(s, page)
             s2 == [s1 EXCEPT !.pNextPage[page] = s.m_unusedPages]
             s3 == IF s.m_unusedPages # NULL
                   THEN [s2 EXCEPT !.pPrevPage[s.m_unusedPages] = page] ELSE s2
         IN  [s |-> [s3 EXCEPT !.m_unusedPages = page, !.m_totalPages = @ + 1],
              page |-> page, thrown |-> FALSE]

\* be is what the device does with the calls GetNewPage makes; the device
\* also refuses a committed resource once it holds deviceLimit pages.
GetNewPage(s, be) ==
    IF be = "resourceFail" \/ Cardinality(s.live) >= deviceLimit
    THEN [s |-> s, page |-> NULL, thrown |-> FALSE]
    ELSE IF be = "mapFail"
    THEN [s |-> s, page |-> NULL, thrown |-> TRUE]    \* ThrowIfFailed(Map)
    ELSE IF be = "fenceFail"
    THEN [s |-> s, page |-> NULL, thrown |-> FALSE]
    ELSE LET page == FreshPage(s)
             s1 == NewPageFields(s, page)
             s2 == [s1 EXCEPT !.pNextPage[page] = s.m_unusedPages]
             s3 == IF s.m_unusedPages # NULL
                   THEN [s2 EXCEPT !.pPrevPage[s.m_unusedPages] = page] ELSE s2
         IN  [s |-> [s3 EXCEPT !.m_unusedPages = page, !.m_totalPages = @ + 1],
              page |-> page, thrown |-> FALSE]

\* The constructor's preallocation loop (every GetNewPage succeeded).
RECURSIVE Preallocate(_, _)
Preallocate(s, n) ==
    IF n = 0 THEN s ELSE Preallocate(GetNewPage(s, "ok").s, n - 1)

\* ---------------------------------------------------------- suballocation
\* Mutant of Suballocate: the cursor is left at the start of the range granted.
SuballocateNoAdvance(s, dbg, page, size, alignment) ==
    LET offset == AlignOffset(s.mOffset[page], alignment)
    IN  IF dbg /\ offset + size > PageSize
        THEN [s |-> s, offset |-> 0, res |-> "CapacityExceeded"]
        ELSE [s |-> [s EXCEPT !.mOffset[page] = offset],
              offset |-> offset, res |-> "ok"]

\* LinearAllocatorPage::Suballocate; mSize is m_increment for every page.
\* The capacity check exists only in a _DEBUG build.
Suballocate(s, dbg, page, size, alignment) ==
    LET offset == AlignOffset(s.mOffset[page], alignment)
    IN  IF dbg /\ offset + size > PageSize
        THEN [s |-> s, offset |-> 0, res |-> "CapacityExceeded"]
        ELSE [s |-> [s EXCEPT !.mOffset[page] = offset + size],
              offset |-> offset, res |-> "ok"]

\* --------------------------------------------------------- page selection
\* Mutant of GetCleanPageForAlloc: with m_unusedPages empty, the head of
\* m_pendingPages is reused before a page is created.
GetCleanPageForAllocFromPending(s, be) ==
    LET new == GetNewPage(s, be)
        reuse == s.m_unusedPages # NULL \/ s.m_pendingPages # NULL
        page == IF s.m_unusedPages # NULL THEN s.m_unusedPages
                ELSE IF s.m_pendingPages # NULL THEN s.m_pendingPages
                ELSE new.page
        s0 == IF reuse THEN s ELSE new.s
        called == IF reuse THEN "none" ELSE be
    IN  IF page = NULL
        THEN [s |-> s0, page |-> NULL, thrown |-> (~reuse /\ new.thrown), be |-> called]
        ELSE LET s1 == LinkPage(UnlinkPage(s0, page), page, "m_usedPages")
             IN  [s |-> CheckThat(s1, s1.mOffset[page] = 0), page |-> page,
                  thrown |-> FALSE, be |-> called]

GetCleanPageForAlloc(s, be) ==
    LET new == GetNewPage(s, be)
        page == IF s.m_unusedPages # NULL THEN s.m_unusedPages ELSE new.page
        s0 == IF s.m_unusedPages # NULL THEN s ELSE new.s
        called == IF s.m_unusedPages # NULL THEN "none" ELSE be
    IN  IF page = NULL
        THEN [s |-> s0, page |-> NULL,
              thrown |-> (s.m_unusedPages = NULL /\ new.thrown), be |-> called]
        ELSE LET s1 == LinkPage(UnlinkPage(s0, page), page, "m_usedPages")
             IN  [s |-> CheckThat(s1, s1.mOffset[page] = 0), page |-> page,
                  thrown |-> FALSE, be |-> called]

\* Mutant of FindPageForAllocIn: a later page with room is preferred to the first.
RECURSIVE FindPageForAllocInLast(_, _, _, _)
FindPageForAllocInLast(s, page, sizeBytes, alignment) ==
    IF page = NULL THEN NULL
    ELSE LET later == FindPageForAllocInLast(s, s.pNextPage[page], sizeBytes, alignment)
         IN  IF later # NULL THEN later
             ELSE IF AlignOffset(s.mOffset[page], alignment) + sizeBytes <= PageSize
             THEN page
             ELSE NULL

\* FindPageForAlloc(list, sizeBytes, alignment): first page of the chain with room.
RECURSIVE FindPageForAllocIn(_, _, _, _)
FindPageForAllocIn(s, page, sizeBytes, alignment) ==
    IF page = NULL THEN NULL
    ELSE IF AlignOffset(s.mOffset[page], alignment) + sizeBytes <= PageSize
    THEN page
    ELSE FindPageForAllocIn(s, s.pNextPage[page], sizeBytes, alignment)

\* Mutant of IsWholePage: the fast path is never taken.
IsWholePageNever(sizeBytes, alignment) == FALSE

\* The fast-path test of GetPageForAlloc.
IsWholePage(sizeBytes, alignment) ==
    sizeBytes = PageSize /\ (alignment = 0 \/ alignment = PageSize)

GetPageForAlloc(s, sizeBytes, alignment, be) ==
    IF IsWholePage(sizeBytes, alignment)
    THEN GetCleanPageForAlloc(s, be)
    ELSE LET page == FindPageForAllocIn(s, s.m_usedPages, sizeBytes, alignment)
         IN  IF page = NULL
             THEN GetCleanPageForAlloc(s, be)
             ELSE [s |-> s, page |-> page, thrown |-> FALSE, be |-> "none"]

\* Mutant of ArgsRejected: the zero-size check is missing.
ArgsRejectedNoZero(dbg, size, alignment) ==
    dbg /\ (size > PageSize \/ alignment > PageSize)

\* The argument checks of FindPageForAlloc(size, alignment), compiled only under _DEBUG.
ArgsRejected(dbg, size, alignment) ==
    dbg /\ (size > PageSize \/ alignment > PageSize \/ size = 0)

\* FindPageForAlloc(size, alignment): res names the exception thrown, or "ok".
FindPageForAlloc(s, dbg, size, alignment, be) ==
    IF ArgsRejected(dbg, size, alignment)
    THEN [s |-> s, page |-> NULL, res |-> "InvalidArgument", be |-> "none"]
    ELSE LET r == GetPageForAlloc(s, size, alignment, be)
         IN  IF r.thrown
             THEN [s |-> r.s, page |-> NULL, res |-> "MapFailed", be |-> r.be]
             ELSE IF r.page = NULL
             THEN [s |-> r.s, page |-> NULL, res |-> "OutOfMemory", be |-> r.be]
             ELSE [s |-> r.s, page |-> r.page, res |-> "ok", be |-> r.be]

\* ------------------------------------------------------- commit and retire
\* Mutant of IsReady: the reference count is not looked at.
IsReadyAlways(s, page) == TRUE

\* The test of FenceCommittedPages for a page that can be fenced: RefCount() == 0.
IsReady(s, page) == s.mRefCount[page] = 0

\* Mutant of SignalValue: the fence is signalled with the value it already has.
SignalValueStale(pendingFence) == pendingFence

\* The value FenceCommittedPages signals and stores: ++page->mPendingFence.
SignalValue(pendingFence) == pendingFence + 1

\* The loop of FenceCommittedPages; t carries the allocator and the two chains.
RECURSIVE FenceLoop(_, _)
FenceLoop(t, page) ==
    IF page = NULL THEN t
    ELSE LET nextPage == t.s.pNextPage[page]
             s1 == [t.s EXCEPT !.pPrevPage[page] = NULL]
         IN  IF IsReady(s1, page)
             THEN LET v == SignalValue(s1.mPendingFence[page])
                      s2 == [s1 EXCEPT !.mPendingFence[page] = v,
                                       !.signals = @ \cup {<<page, v>>},
                                       !.pNextPage[page] = t.readyPages]
                      s3 == IF t.readyPages # NULL
                            THEN [s2 EXCEPT !.pPrevPage[t.readyPages] = page] ELSE s2
                  IN  FenceLoop([t EXCEPT !.s = s3, !.readyPages = page,
                                          !.numReady = @ + 1], nextPage)
             ELSE LET s2 == [s1 EXCEPT !.pNextPage[page] = t.unreadyPages]
                      s3 == IF t.unreadyPages # NULL
                            THEN [s2 EXCEPT !.pPrevPage[t.unreadyPages] = page] ELSE s2
                  IN  FenceLoop([t EXCEPT !.s = s3, !.unreadyPages = page], nextPage)

FenceCommittedPages(s) ==
    IF s.m_usedPages = NULL THEN s
    ELSE LET t == FenceLoop([s |-> s, readyPages |-> NULL, unreadyPages |-> NULL,
                             numReady |-> 0], s.m_usedPages)
             s1 == [t.s EXCEPT !.m_usedPages = t.unreadyPages]
         IN  IF t.numReady > 0
             THEN LinkPageChain([s1 EXCEPT !.m_numPending = @ + t.numReady],
                                t.readyPages, "m_pendingPages")
             ELSE s1

\* Mutant of FencePassed: the fence is not looked at.
FencePassedAlways(completed, pendingFence) == TRUE

\* Mutant of FencePassed: off by one, so the value of the previous cycle passes.
FencePassedStale(completed, pendingFence) == completed + 1 >= pendingFence

\* Mutant of FencePassed: the fence must have gone beyond the value waited for.
FencePassedStrict(completed, pendingFence) == completed > pendingFence

\* The poll of RetirePendingPages: GetCompletedValue() >= mPendingFence.
FencePassed(completed, pendingFence) == completed >= pendingFence

\* Mutant of RetireLoop: the walk ends at the first page whose fence has not passed.
RECURSIVE RetireLoopStopsAtUnsatisfied(_, _)
RetireLoopStopsAtUnsatisfied(s, page) ==
    IF page = NULL THEN s
    ELSE LET nextPage == s.pNextPage[page]
             s0 == CheckThat(s, s.mPendingFence[page] # 0)
         IN  IF FencePassed(s0.mFence[page], s0.mPendingFence[page])
             THEN RetireLoopStopsAtUnsatisfied(ReleasePage(s0, page), nextPage)
             ELSE s0

\* The loop of RetirePendingPages.
RECURSIVE RetireLoop(_, _)
RetireLoop(s, page) ==
    IF page = NULL THEN s
    ELSE LET nextPage == s.pNextPage[page]
             s0 == CheckThat(s, s.mPendingFence[page] # 0)
             s1 == IF FencePassed(s0.mFence[page], s0.mPendingFence[page])
                   THEN ReleasePage(s0, page) ELSE s0
         IN  RetireLoop(s1, nextPage)

RetirePendingPages(s) == RetireLoop(s, s.m_pendingPages)

\* Mutant of Shrink: m_unusedPages is left pointing at the first freed page.
ShrinkLeavesHead(s) == FreePages(s, s.m_unusedPages)

Shrink(s) == [FreePages(s, s.m_unusedPages) EXCEPT !.m_unusedPages = NULL]

\* Mutant of PendingDrained: ~LinearAllocator does not wait.
PendingDrainedAtOnce(s) == TRUE

\* The exit test of the loop in ~LinearAllocator: m_pendingPages == nullptr.
PendingDrained(s) == s.m_pendingPages = NULL

\* ~LinearAllocator once the loop has ended.
ReturnAllMemory(s) ==
    LET s0 == CheckThat(s, s.m_pendingPages = NULL)
        s1 == FreePages(FreePages(s0, s0.m_unusedPages), s0.m_usedPages)
    IN  [s1 EXCEPT !.m_pendingPages = NULL, !.m_usedPages = NULL, !.m_unusedPages = NULL]

\* ------------------------------------------------------------ observation
\* The pages met walking pNextPage from head, in order, for at most n steps.
RECURSIVE Walk(_, _, _)
Walk(nxt, page, n) ==
    IF page = NULL \/ n = 0 THEN <<>> ELSE <<page>> \o Walk(nxt, nxt[page], n - 1)

ListOf(s, list) == Walk(s.pNextPage, s[list], MaxPagesWhole + 1)
SetOf(seq) == {seq[i] : i \in 1..Len(seq)}

NoRange == [lo |-> 0, hi |-> 0]

\* granted after a step that leaves the allocator as s and did not suballocate:
\* a page that is back in m_unusedPages, or deleted, has no range granted.
GrantedAfter(s) ==
    [p \in Pages |-> IF p \notin s.live \/ p \in SetOf(ListOf(s, "m_unusedPages"))
                     THEN NoRange ELSE granted[p]]

\* ---------------------------------------------------------------- actions
Init ==
    /\ debug \in BOOLEAN
    /\ deviceLimit = MaxPages
    /\ pc = "alive"
    /\ \E n \in 0..MaxPrealloc : InitFrom(Preallocate(EmptyAllocator, n))
    /\ granted = [p \in Pages |-> NoRange]
    /\ atDtor = {}

\* What the device may answer: it is asked only when m_unusedPages is empty.
Answers == IF m_unusedPages = NULL THEN Backends ELSE {"ok"}

\* A caller acquires a page for one of the requests rqs and makes no
\* suballocation from it.
FindPageForAllocOf(rqs) ==
    /\ pc = "alive"
    /\ \E rq \in rqs, be \in Answers :
         \E r \in {FindPageForAlloc(Cur, debug, rq[1], rq[2], be)} :
             Assign(r.s) /\ granted' = GrantedAfter(r.s)
    /\ UNCHANGED <<debug, deviceLimit, pc, atDtor>>

FindPageForAllocAct == FindPageForAllocOf(Requests)

\* A caller acquires a page for one of the requests rqs and suballocates from
\* it with the same arguments.
AllocateOf(rqs) ==
    /\ pc = "alive"
    /\ \E rq \in rqs, be \in Answers :
         \E r \in {FindPageForAlloc(Cur, debug, rq[1], rq[2], be)} :
             /\ r.res = "ok"
             /\ \E u \in {Suballocate(r.s, debug, r.page, rq[1], rq[2])} :
                  /\ Assign(u.s)
                  /\ granted' = IF u.res = "ok"
                                THEN [GrantedAfter(r.s) EXCEPT
                                        ![r.page] = [lo |-> u.offset,
                                                     hi |-> u.offset + rq[1]]]
                                ELSE GrantedAfter(r.s)
    /\ UNCHANGED <<debug, deviceLimit, pc, atDtor>>

AllocateAct == AllocateOf(Requests)

FenceCommittedPagesAct ==
    /\ pc = "alive"
    /\ \A p \in SetOf(ListOf(Cur, "m_usedPages")) : mPendingFence[p] < MaxFence
    /\ \E s \in {FenceCommittedPages(Cur)} : Assign(s) /\ granted' = GrantedAfter(s)
    /\ UNCHANGED <<debug, deviceLimit, pc, atDtor>>

RetirePendingPagesAct ==
    /\ pc = "alive"
    /\ \E s \in {RetirePendingPages(Cur)} : Assign(s) /\ granted' = GrantedAfter(s)
    /\ UNCHANGED <<debug, deviceLimit, pc, atDtor>>

ShrinkAct ==
    /\ pc = "alive"
    /\ \E s \in {Shrink(Cur)} : Assign(s) /\ granted' = GrantedAfter(s)
    /\ UNCHANGED <<debug, deviceLimit, pc, atDtor>>

\* A holder of an allocation takes a reference on its page (a page in use).
AddRef ==
    /\ pc = "alive"
    /\ \E p \in SetOf(ListOf(Cur, "m_usedPages")) :
         /\ mRefCount[p] < MaxRef
         /\ mRefCount' = [mRefCount EXCEPT ![p] = @ + 1]
    /\ UNCHANGED <<debug, deviceLimit, pc, m_unusedPages, m_usedPages, m_pendingPages,
                   m_totalPages, m_numPending, live, pNextPage, pPrevPage,
                   mOffset, mPendingFence, mFence, signals, assertFailed,
                   granted, atDtor>>

\* A holder drops its reference.
Release ==
    /\ pc = "alive"
    /\ \E p \in live :
         /\ mRefCount[p] > 0
         /\ mRefCount' = [mRefCount EXCEPT ![p] = @ - 1]
    /\ UNCHANGED <<debug, deviceLimit, pc, m_unusedPages, m_usedPages, m_pendingPages,
                   m_totalPages, m_numPending, live, pNextPage, pPrevPage,
                   mOffset, mPendingFence, mFence, signals, assertFailed,
                   granted, atDtor>>

\* The device reaches a queued Signal(fence, value) and sets the fence to value.
DeviceSignal ==
    /\ \E sg \in signals :
         /\ mFence' = [mFence EXCEPT ![sg[1]] = sg[2]]
         /\ signals' = signals \ {sg}
    /\ UNCHANGED <<debug, deviceLimit, pc, m_unusedPages, m_usedPages, m_pendingPages,
                   m_totalPages, m_numPending, live, pNextPage, pPrevPage,
                   mOffset, mPendingFence, mRefCount, assertFailed, granted, atDtor>>

\* ~LinearAllocator is entered.
DtorBegin ==
    /\ pc = "alive"
    /\ pc' = "dtor"
    /\ atDtor' = SetOf(ListOf(Cur, "m_pendingPages"))
    /\ UNCHANGED <<debug, deviceLimit, m_unusedPages, m_usedPages, m_pendingPages,
                   m_totalPages, m_numPending, live, pNextPage, pPrevPage,
                   mOffset, mPendingFence, mRefCount, mFence, signals,
                   assertFailed, granted>>

\* One iteration of while ( m_pendingPages != nullptr ) RetirePendingPages();
DtorRetire ==
    /\ pc = "dtor"
    /\ ~PendingDrained(Cur)
    /\ \E s \in {RetirePendingPages(Cur)} : Assign(s) /\ granted' = GrantedAfter(s)
    /\ UNCHANGED <<debug, deviceLimit, pc, atDtor>>

\* The loop has ended: the rest of ~LinearAllocator.
DtorFree ==
    /\ pc = "dtor"
    /\ PendingDrained(Cur)
    /\ \E s \in {ReturnAllMemory(Cur)} : Assign(s) /\ granted' = GrantedAfter(s)
    /\ pc' = "done"
    /\ UNCHANGED <<debug, deviceLimit, atDtor>>

Next ==
    \/ FindPageForAllocAct
    \/ AllocateAct
    \/ FenceCommittedPagesAct
    \/ RetirePendingPagesAct
    \/ ShrinkAct
    \/ AddRef
    \/ Release
    \/ DeviceSignal
    \/ DtorBegin
    \/ DtorRetire
    \/ DtorFree

Spec == Init /\ [][Next]_vars

\* The requests for a whole page.
WholePageRequests == {rq \in Requests : IsWholePage(rq[1], rq[2])}

FindWholePage == FindPageForAllocOf(WholePageRequests)
AllocateWholePage == AllocateOf(WholePageRequests)

\* The allocator serving whole-page requests only: every page is empty or full.
NextWholePages ==
    \/ FindWholePage
    \/ AllocateWholePage
    \/ FenceCommittedPagesAct
    \/ RetirePendingPagesAct
    \/ ShrinkAct
    \/ AddRef
    \/ Release
    \/ DeviceSignal
    \/ DtorBegin
    \/ DtorRetire
    \/ DtorFree

\* The same allocator on a device that holds MaxPagesWhole pages.
InitWholePages ==
    /\ debug \in BOOLEAN
    /\ deviceLimit = MaxPagesWhole
    /\ pc = "alive"
    /\ \E n \in 0..MaxPrealloc : InitFrom(Preallocate(EmptyAllocator, n))
    /\ granted = [p \in Pages |-> NoRange]
    /\ atDtor = {}

ListSpec == InitWholePages /\ [][NextWholePages]_vars

\* The device reaches the signal queued for the fence of page p.
DeviceReaches(p) == DeviceSignal /\ mFence'[p] # mFence[p]

\* Whole-page requests, a device that reaches every queued signal and a caller
\* that keeps calling RetirePendingPages (in ~LinearAllocator, its loop does).
RetireSpec ==
    /\ Init /\ [][NextWholePages]_vars
    /\ \A p \in Pages : WF_vars(DeviceReaches(p))
    /\ WF_vars(RetirePendingPagesAct) /\ WF_vars(DtorRetire)

\* The device eventually reaches every queued signal, and ~LinearAllocator,
\* once entered, keeps running its loop and the code after it.
FairSpec ==
    /\ Init /\ [][NextWholePages]_vars
    /\ WF_vars(DeviceSignal) /\ WF_vars(DtorRetire) /\ WF_vars(DtorFree)

\* ----------------------------------------------------------------- claims
UnusedSeq == ListOf(Cur, "m_unusedPages")
UsedSeq == ListOf(Cur, "m_usedPages")
PendingSeq == ListOf(Cur, "m_pendingPages")
Unused == SetOf(UnusedSeq)
Used == SetOf(UsedSeq)
Pending == SetOf(PendingSeq)

\* C1: a page leaves m_pendingPages only in a step in which its fence's
\* completed value, as polled, is at least the page's mPendingFence; this
\* includes a page on a later cycle whose fence still holds an earlier value.
C1_LeavesPendingOnlyWhenFencePassed ==
    [][\A p \in Pages :
         (p \in Pending /\ p \notin Pending') => mFence[p] >= mPendingFence[p]]_vars

\* C1 witness: a page on its second cycle has been retired to m_unusedPages
\* while another page, fenced and not yet reached by the device, stays pending.
C1_Witness ==
    /\ \E p \in Unused : mPendingFence[p] >= 2 /\ mFence[p] >= 2
    /\ \E q \in Pending : mFence[q] < mPendingFence[q]

\* C2: a FenceCommittedPages call leaves in m_usedPages exactly the pages that
\* were there with a nonzero reference count, moves every page of m_usedPages
\* with a zero count to m_pendingPages with a newly issued, queued signal
\* value, and keeps every page of the other two lists in its list.
C2_CommitPartitionsUsed ==
    [][FenceCommittedPagesAct =>
         /\ Used' = {p \in Used : mRefCount[p] > 0}
         /\ \A p \in Used : mRefCount[p] = 0 =>
              /\ p \in Pending'
              /\ mPendingFence'[p] = mPendingFence[p] + 1
              /\ <<p, mPendingFence'[p]>> \in signals'
         /\ \A p \in Pending : p \in Pending'
         /\ \A p \in Unused : p \in Unused'
         /\ Unused' = Unused]_vars

\* C2 witness: a commit has fenced one page (its signal is still queued) and
\* left a referenced page in m_usedPages.
C2_Witness ==
    /\ \E p \in Pending : <<p, mPendingFence[p]>> \in signals
    /\ \E q \in Used : mRefCount[q] > 0 /\ mOffset[q] > 0

\* Each list ends within as many links as there are pages and meets no page twice.
NoRepeat(seq) == Len(seq) <= MaxPagesWhole /\ Cardinality(SetOf(seq)) = Len(seq)

\* C3: every live page is reachable from exactly one of the three heads, once,
\* and no page is unreachable.
C3_EveryPageInExactlyOneList ==
    /\ NoRepeat(UnusedSeq) /\ NoRepeat(UsedSeq) /\ NoRepeat(PendingSeq)
    /\ Unused \cap Used = {}
    /\ Unused \cap Pending = {}
    /\ Used \cap Pending = {}
    /\ Unused \cup Used \cup Pending = live

\* C3 witness: two pages in two different lists after a commit and a retire.
C3_Witness ==
    /\ Len(UnusedSeq) = 1 /\ Len(PendingSeq) = 1
    /\ \E p \in Unused : mPendingFence[p] > 0

\* C4: the three lists together hold as many pages as exist (created and
\* not destroyed), and m_totalPages is that number.
C4_PageCount ==
    /\ Len(UnusedSeq) + Len(UsedSeq) + Len(PendingSeq) = Cardinality(live)
    /\ m_totalPages = Cardinality(live)

\* C4 witness: pages were created and the allocator is at the device's limit,
\* where further creation fails.
C4_Witness ==
    /\ pc = "alive"
    /\ m_totalPages = MaxPages
    /\ Len(UsedSeq) + Len(PendingSeq) = MaxPages

\* A request the argument checks are meant to let through, with a usable alignment.
IsPowerOfTwo(n) == \E k \in 0..n : 2 ^ k = n
ValidRequest(rq) ==
    /\ 1 <= rq[1] /\ rq[1] <= PageSize
    /\ rq[2] = 0 \/ (IsPowerOfTwo(rq[2]) /\ rq[2] <= PageSize)

\* The least multiple of alignment that is at least offset.
RoundUp(offset, alignment) ==
    IF alignment = 0 THEN offset
    ELSE ((offset + alignment - 1) \div alignment) * alignment

\* C5: in every state where the device can create a page, acquiring a page for
\* a valid request and suballocating the same request from it succeeds, with
\* an offset that is a multiple of the alignment and a range inside the page.
C5_ValidRequestIsServed ==
    (pc = "alive" /\ Cardinality(live) < MaxPages) =>
        \A rq \in Requests : ValidRequest(rq) =>
            LET r == FindPageForAlloc(Cur, debug, rq[1], rq[2], "ok")
            IN  /\ r.res = "ok"
                /\ LET u == Suballocate(r.s, debug, r.page, rq[1], rq[2])
                   IN  /\ u.res = "ok"
                       /\ rq[2] > 0 => u.offset % rq[2] = 0
                       /\ u.offset + rq[1] <= PageSize

\* C5 witness: an aligned request is served from a page in use whose cursor is
\* odd, so the offset returned lies above the cursor.
C5_Witness ==
    /\ pc = "alive" /\ Cardinality(live) < MaxPages
    /\ LET r == FindPageForAlloc(Cur, debug, 1, 2, "ok")
       IN  /\ r.res = "ok"
           /\ r.page \in Used
           /\ mOffset[r.page] = 1
           /\ granted[r.page] = [lo |-> 0, hi |-> 1]

\* C6: while a page stays in m_usedPages its cursor never decreases, and each
\* range suballocated from it starts at or after the end of the one before.
C6_RangesDoNotOverlap ==
    [][\A p \in Pages :
         (p \in Used /\ p \in Used') =>
            /\ mOffset'[p] >= mOffset[p]
            /\ granted'[p] # granted[p] => granted'[p].lo >= granted[p].hi]_vars

\* C6 witness: a second range was granted from a page, after alignment, above
\* the end of the first.
C6_Witness ==
    \E p \in Used : granted[p] = [lo |-> 2, hi |-> 3] /\ mOffset[p] = 3

InvalidRequest(rq) == rq[1] = 0 \/ rq[1] > PageSize \/ rq[2] > PageSize

Refused(rq, be) ==
    LET r == FindPageForAlloc(Cur, debug, rq[1], rq[2], be)
    IN  r.res = "InvalidArgument" /\ r.s = Cur

NeedsCleanPage(rq) ==
    \/ rq[1] = PageSize /\ rq[2] \in {0, PageSize}
    \/ \A p \in Used : RoundUp(mOffset[p], rq[2]) + rq[1] > PageSize

\* C8: when a valid request needs a clean page, m_unusedPages is empty and the
\* device fails to create the resource or the fence, FindPageForAlloc fails
\* with OutOfMemory and leaves the allocator as it was.
C8_CreationFailureIsOutOfMemory ==
    (pc = "alive" /\ m_unusedPages = NULL) =>
        \A rq \in Requests : (ValidRequest(rq) /\ NeedsCleanPage(rq)) =>
            \A be \in {"resourceFail", "fenceFail"} :
                LET r == FindPageForAlloc(Cur, debug, rq[1], rq[2], be)
                IN  r.res = "OutOfMemory" /\ r.s = Cur

\* C8 witness: every page is full or awaiting its fence, none is unused, and
\* the device could still hold another page.
C8_Witness ==
    /\ pc = "alive" /\ m_unusedPages = NULL
    /\ Cardinality(live) < MaxPages
    /\ Used # {} /\ NeedsCleanPage(<<1, 0>>)

\* C9: inside ~LinearAllocator a page is deleted only when m_pendingPages is
\* empty, never out of m_pendingPages, and a page leaves m_pendingPages only
\* into m_unusedPages, by a retire that saw its fence passed.
C9_ShutdownFreesNothingPending ==
    [][pc = "dtor" =>
         \A p \in Pages :
            /\ (p \in live /\ p \notin live') =>
                  (m_pendingPages = NULL /\ p \notin Pending)
            /\ (p \in Pending /\ p \notin Pending') =>
                  (p \in Unused' /\ mFence[p] >= mPendingFence[p])]_vars

\* C9 witness: shutdown began with a page pending and has ended.
C9_Witness == pc = "done" /\ atDtor # {}

\* C10: ~LinearAllocator does not end while a page that was pending when it
\* began is unsatisfied; given that the device reaches every queued signal it
\* does end, and then no page exists and m_totalPages is 0.
C10_ShutdownWaitsAndEnds ==
    /\ [][(pc = "dtor" /\ pc' = "done") =>
            \A p \in atDtor : p \notin Pending /\ mFence[p] >= mPendingFence[p]]_vars
    /\ (pc = "dtor") ~> (pc = "done")
    /\ [](pc = "done" =>
            /\ live = {} /\ m_totalPages = 0
            /\ m_unusedPages = NULL /\ m_usedPages = NULL /\ m_pendingPages = NULL)

\* C10 witness: shutdown began with every page pending, none of them yet
\* reached by the device, and has ended.
C10_Witness ==
    /\ pc = "done"
    /\ Cardinality(atDtor) = MaxPages

\* C11: a Shrink call deletes exactly the pages of m_unusedPages and leaves that
\* list empty; m_usedPages and m_pendingPages keep their pages in their order,
\* with the same mOffset, mPendingFence and mRefCount, and m_totalPages drops
\* by the number of pages that were in m_unusedPages.
C11_ShrinkFreesUnusedOnly ==
    [][ShrinkAct =>
         /\ m_unusedPages' = NULL /\ Unused' = {}
         /\ live' = live \ Unused
         /\ UsedSeq' = UsedSeq /\ PendingSeq' = PendingSeq
         /\ \A p \in Used \cup Pending :
              /\ mOffset'[p] = mOffset[p]
              /\ mPendingFence'[p] = mPendingFence[p]
              /\ mRefCount'[p] = mRefCount[p]
         /\ m_totalPages' = m_totalPages - Len(UnusedSeq)]_vars

\* C11 witness: the page created first is gone while the allocator is alive
\* (only Shrink deletes then), and the page created after it is still in use
\* with the cursor its suballocations left.
C11_Witness ==
    /\ pc = "alive"
    /\ live = {2} /\ m_totalPages = 1
    /\ 2 \in Used /\ mOffset[2] > 0 /\ mRefCount[2] > 0

\* C12: every page of m_unusedPages has mOffset 0, and whenever FindPageForAlloc
\* takes a page that was not in m_usedPages (from m_unusedPages or newly
\* created), the page has mOffset 0 when the call returns and the call trips
\* no assert.
C12_UnusedPagesAreEmpty ==
    /\ \A p \in Unused : mOffset[p] = 0
    /\ pc = "alive" =>
         \A rq \in Requests : \A be \in Answers :
            LET r == FindPageForAlloc(Cur, debug, rq[1], rq[2], be)
            IN  /\ r.s.assertFailed = assertFailed
                /\ (r.res = "ok" /\ r.page \notin Used) => r.s.mOffset[r.page] = 0

\* C12 witness: a page that was fenced and retired has been taken into use
\* again and nothing has been suballocated from it yet.
C12_Witness ==
    /\ pc = "alive"
    /\ \E p \in Used :
         /\ p = m_usedPages /\ mOffset[p] = 0
         /\ mPendingFence[p] >= 1 /\ mFence[p] = mPendingFence[p]

\* Where a page is: the list that holds it, or "none" when it does not exist.
Loc(p) ==
    IF p \in Unused THEN "unused"
    ELSE IF p \in Used THEN "used"
    ELSE IF p \in Pending THEN "pending"
    ELSE "none"

\* C13: GetNewPage links the page it creates at the head of m_unusedPages, and
\* while the allocator is alive a page changes list only in these steps: into
\* m_usedPages from m_unusedPages, or newly created, in a FindPageForAlloc
\* call; from m_usedPages to m_pendingPages in a FenceCommittedPages call, with
\* mRefCount 0; from m_pendingPages to m_unusedPages in a RetirePendingPages
\* call; out of m_unusedPages into deletion in a Shrink call.
C13_LifecycleEdges ==
    /\ [](\A be \in Backends :
            LET n == GetNewPage(Cur, be)
            IN  n.page # NULL =>
                  /\ n.page \notin live
                  /\ n.s.m_unusedPages = n.page
                  /\ n.s.m_usedPages = m_usedPages
                  /\ n.s.m_pendingPages = m_pendingPages)
    /\ [][pc = "alive" =>
           \A p \in Pages :
              \/ Loc(p)' = Loc(p)
              \/ /\ Loc(p) \in {"unused", "none"} /\ Loc(p)' = "used"
                 /\ FindPageForAllocAct \/ AllocateAct
                 /\ Loc(p) = "none" => m_unusedPages = NULL
              \/ /\ Loc(p) = "used" /\ Loc(p)' = "pending"
                 /\ FenceCommittedPagesAct
                 /\ mRefCount[p] = 0
              \/ /\ Loc(p) = "pending" /\ Loc(p)' = "unused"
                 /\ RetirePendingPagesAct
              \/ /\ Loc(p) = "unused" /\ Loc(p)' = "none"
                 /\ ShrinkAct]_vars

\* C13 witness: a page is around the cycle a second time (fenced and retired
\* once, in use and written again) while another page has been fenced and
\* awaits its signal.
C13_Witness ==
    /\ pc = "alive"
    /\ \E p \in Used : mPendingFence[p] = 1 /\ mFence[p] = 1 /\ mOffset[p] > 0
    /\ \E q \in Pending : mFence[q] < mPendingFence[q]

\* C14: a page is created with mPendingFence 0; the mPendingFence of a page
\* that exists changes only in a FenceCommittedPages call that moves the page
\* from m_usedPages to m_pendingPages, and then to a greater value; every page
\* of m_pendingPages has mPendingFence >= 1, which is what RetirePendingPages
\* asserts of each page it polls.
C14_PendingFenceIncreases ==
    /\ [](\A p \in Pending : mPendingFence[p] >= 1)
    /\ [][\A p \in Pages :
            /\ (p \notin live /\ p \in live') => mPendingFence'[p] = 0
            /\ (p \in live /\ p \in live' /\ mPendingFence'[p] # mPendingFence[p]) =>
                  /\ FenceCommittedPagesAct
                  /\ p \in Used /\ p \in Pending'
                  /\ mPendingFence'[p] > mPendingFence[p]]_vars

\* C14 witness: a page is in m_pendingPages on its second commit, signalled with
\* a value above the one its fence reached on the first.
C14_Witness ==
    \E p \in Pending : mPendingFence[p] = 2 /\ mFence[p] = 1 /\ <<p, 2>> \in signals

\* The positions in m_usedPages of the pages with room for the request.
Fits(rq) ==
    {i \in 1..Len(UsedSeq) : RoundUp(mOffset[UsedSeq[i]], rq[2]) + rq[1] <= PageSize}

C16_WholePageTakesCleanPage ==
    pc = "alive" =>
        \A rq \in {<<PageSize, 0>>, <<PageSize, PageSize>>} : \A be \in Answers :
            LET r == FindPageForAlloc(Cur, debug, rq[1], rq[2], be)
            IN  r.res = "ok" =>
                  /\ r.page \notin Used
                  /\ IF m_unusedPages # NULL
                     THEN r.page = m_unusedPages /\ r.s.live = live
                     ELSE r.page \notin live /\ r.s.live = live \cup {r.page}
                  /\ r.s.mOffset[r.page] = 0
                  /\ r.s.m_usedPages = r.page
                  /\ r.s.pNextPage[r.page] = m_usedPages

\* C16 witness: a page in use still has cursor 0, so it would have room for a
\* whole page, and a clean page can be had.
C16_Witness ==
    /\ pc = "alive"
    /\ \E p \in Used : mOffset[p] = 0
    /\ FindPageForAlloc(Cur, debug, PageSize, 0, "ok").res = "ok"

\* The fence of page p has not reached the value the page waits for.
Unsatisfied(p) == mFence[p] < mPendingFence[p]

\* C17: a RetirePendingPages call (from a caller or from ~LinearAllocator)
\* only polls: it changes no fence and no queued signal; every page of
\* m_pendingPages whose fence is below its mPendingFence is still there
\* afterwards, those pages are in the order they had, with the same mOffset
\* and mPendingFence, and m_usedPages and its pages are as they were.
C17_RetireLeavesUnsatisfied ==
    [][(RetirePendingPagesAct \/ DtorRetire) =>
         /\ mFence' = mFence /\ signals' = signals
         /\ \A p \in Pending : Unsatisfied(p) =>
              /\ p \in Pending'
              /\ mOffset'[p] = mOffset[p]
              /\ mPendingFence'[p] = mPendingFence[p]
         /\ SelectSeq(PendingSeq', Unsatisfied) = SelectSeq(PendingSeq, Unsatisfied)
         /\ UsedSeq' = UsedSeq
         /\ \A p \in Used :
              /\ mOffset'[p] = mOffset[p]
              /\ mPendingFence'[p] = mPendingFence[p]
              /\ mRefCount'[p] = mRefCount[p]]_vars

\* C17 witness: three pages are pending, only the middle one has passed its
\* fence, and a retire takes it out from between the other two.
C17_Witness ==
    /\ Len(PendingSeq) = 3
    /\ Unsatisfied(PendingSeq[1]) /\ ~Unsatisfied(PendingSeq[2]) /\ Unsatisfied(PendingSeq[3])
    /\ mOffset[PendingSeq[1]] = PageSize
    /\ LET s == RetirePendingPages(Cur)
       IN  /\ ListOf(s, "m_pendingPages") = <<PendingSeq[1], PendingSeq[3]>>
           /\ ListOf(s, "m_unusedPages") = <<PendingSeq[2]>>

\* What ValidateList checks of a list: each page links back to the page before
\* it, and the head links back to nullptr.
LinkedBack(seq) ==
    \A i \in 1..Len(seq) : pPrevPage[seq[i]] = IF i = 1 THEN NULL ELSE seq[i - 1]

\* C18: each of the three lists ends, meets no page twice and passes
\* ValidateList; a page's pPrevPage is nullptr exactly when the page is the
\* head of a list, and the page after p links back to p.
C18_ListsWellLinked ==
    /\ NoRepeat(UnusedSeq) /\ LinkedBack(UnusedSeq)
    /\ NoRepeat(UsedSeq) /\ LinkedBack(UsedSeq)
    /\ NoRepeat(PendingSeq) /\ LinkedBack(PendingSeq)
    /\ \A p \in live :
         /\ pPrevPage[p] = NULL <=> p \in {m_unusedPages, m_usedPages, m_pendingPages}
         /\ pNextPage[p] # NULL => pPrevPage[pNextPage[p]] = p

\* C18 witness: with one page pending and two in use, of which the one nearer
\* the tail is referenced, a commit rebuilds m_usedPages from the referenced
\* page and splices the other in front of the pending page.
C18_Witness ==
    /\ pc = "alive"
    /\ Len(UsedSeq) = 2 /\ Len(PendingSeq) = 1
    /\ mRefCount[UsedSeq[1]] = 0 /\ mRefCount[UsedSeq[2]] > 0
    /\ LET s == FenceCommittedPages(Cur)
       IN  /\ ListOf(s, "m_usedPages") = <<UsedSeq[2]>>
           /\ ListOf(s, "m_pendingPages") = <<UsedSeq[1], PendingSeq[1]>>
           /\ s.pPrevPage[PendingSeq[1]] = UsedSeq[1]
           /\ s.pPrevPage[UsedSeq[2]] = NULL

C20_PendingPagesComeBack ==
    /\ \A p \in Pages : (p \in Pending) ~> (p \in Unused /\ mOffset[p] = 0)
    /\ [](\A p \in Pending :
            ~Unsatisfied(p) =>
                LET s == RetirePendingPages(Cur)
                IN  p \in SetOf(ListOf(s, "m_unusedPages")) /\ s.mOffset[p] = 0)

\* C20 witness: of two pending pages the head is still awaited and the page
\* behind it has passed its fence; one retire walks past the head and brings
\* the other page back with its cursor reset.
C20_Witness ==
    /\ Len(PendingSeq) = 2
    /\ Unsatisfied(PendingSeq[1]) /\ ~Unsatisfied(PendingSeq[2])
    /\ mOffset[PendingSeq[2]] = PageSize
    /\ LET s == RetirePendingPages(Cur)
       IN  /\ ListOf(s, "m_pendingPages") = <<PendingSeq[1]>>
           /\ s.m_unusedPages = PendingSeq[2]
           /\ s.mOffset[PendingSeq[2]] = 0

====
